---- MODULE Spec2Model ----
(***************************************************************************)
(* Verification model of the BigInteger abstraction: the abstract class    *)
(* BigInteger (backend registry and factory), the fallback backend         *)
(* BNBigInteger, and the bn.js operations the fallback backend calls.      *)
(*                                                                         *)
(* A bn.js number is modelled in sign-magnitude form, as bn.js stores it:  *)
(* [negative |-> 0 or 1, mag |-> the magnitude].  The limb algorithms that *)
(* add, multiply and divide magnitudes are modelled by their results on    *)
(* the magnitude; everything that bn.js decides by sign, by parity, by     *)
(* word size or by assertion is modelled step by step.                     *)
(***************************************************************************)
EXTENDS Integers, Sequences, FiniteSets, TLC

(***************************************************************************)
(* Bounds of the model.                                                    *)
(***************************************************************************)
\* Width of a word in the Montgomery shift and in the trailing-zero scan of
\* egcd (bn.js uses 26 there; neither decides a result).
wordSize == 4
\* Largest magnitude of the receiver (a), of the first argument (b) and the
\* largest value of the modulus argument (c) of a single call under SpecCall.
MaxBase == 12
MaxExp == 18
MaxMod == 18
\* Under Spec: the value objects the caller keeps at once (the result of a
\* call is one object more, until the caller returns from it), and the
\* largest and the least integer a value object holds.
MaxObjs == 2
MaxVal == 2
MinVal == 0 - 2
\* the tests of bigIntegerTests the test runner registers, at most
MaxTests == 3

(***************************************************************************)
(* Integer helpers.                                                        *)
(***************************************************************************)
RECURSIVE Pow2(_)
Pow2(k) == IF k <= 0 THEN 1 ELSE 2 * Pow2(k - 1)

RECURSIVE BitLen(_)
BitLen(m) == IF m = 0 THEN 0 ELSE 1 + BitLen(m \div 2)


(***************************************************************************)
(* bn.js numbers.                                                          *)
(***************************************************************************)
BN(neg, m) == [negative |-> neg, mag |-> m]

\* new BN(number): a negative number sets the sign flag and keeps |number|.
BN_new(number) ==
  IF number < 0 THEN BN(1, 0 - number) ELSE BN(0, number)

\* The integer a bn.js number stands for.
BN_int(a) == IF a.negative # 0 THEN 0 - a.mag ELSE a.mag

BN_clone(a) == BN(a.negative, a.mag)

BN_isZero(a) == a.mag = 0
BN_isEven(a) == a.mag % 2 = 0
BN_isOdd(a) == a.mag % 2 = 1
BN_isNeg(a) == a.negative # 0

\* (mutant) _normSign that leaves the sign flag of a zero.
BN_normSign_absent(a) == a

\* _normSign: a zero never keeps the sign flag.
BN_normSign(a) == IF a.mag = 0 THEN BN(0, 0) ELSE a

\* strip(): drops the leading zero words and ends with _normSign().
BN_strip(a) == BN_normSign(a)

BN_ineg(a) == IF ~BN_isZero(a) THEN BN(1 - a.negative, a.mag) ELSE a
BN_neg(a) == BN_ineg(BN_clone(a))
BN_abs(a) == BN(0, a.mag)

\* ucmp / cmp: -1, 0 or 1.
BN_ucmp(a, b) == IF a.mag > b.mag THEN 1 ELSE IF a.mag < b.mag THEN 0 - 1 ELSE 0

BN_cmp(a, b) ==
  IF a.negative # 0 /\ b.negative = 0 THEN 0 - 1
  ELSE IF a.negative = 0 /\ b.negative # 0 THEN 1
  ELSE IF a.negative # 0 THEN 0 - BN_ucmp(a, b)
  ELSE BN_ucmp(a, b)

BN_eq(a, b) == BN_cmp(a, b) = 0

\* iadd / isub on two distinct objects; each is written in terms of the
\* other for mixed signs, exactly as in bn.js.
RECURSIVE BN_iadd(_, _), BN_isub(_, _)
BN_iadd(a, num) ==
  IF a.negative # 0 /\ num.negative = 0 THEN
    LET r == BN_isub(BN(0, a.mag), num)
    IN BN_normSign(BN(1 - r.negative, r.mag))
  ELSE IF a.negative = 0 /\ num.negative # 0 THEN
    BN_normSign(BN_isub(a, BN(0, num.mag)))
  ELSE BN(a.negative, a.mag + num.mag)

BN_isub(a, num) ==
  IF num.negative # 0 THEN
    BN_normSign(BN_iadd(a, BN(0, num.mag)))
  ELSE IF a.negative # 0 THEN
    LET r == BN_iadd(BN(0, a.mag), num)
    IN BN_normSign(BN(1, r.mag))
  ELSE IF a.mag = num.mag THEN BN(0, 0)
  ELSE IF a.mag > num.mag THEN BN(0, a.mag - num.mag)
  ELSE BN(1, num.mag - a.mag)

\* (mutant) an iadd that leaves the sign flag of num cleared.
BN_iadd_arg_unrestored(a, num) ==
  IF a.negative = 0 /\ num.negative # 0 THEN BN(0, num.mag) ELSE num

\* What num holds after this.iadd(num) and after this.isub(num): for a
\* negative num bn.js clears num.negative, works on the magnitudes and sets
\* num.negative = 1 again; the other branches only read num.
BN_iadd_arg(a, num) ==
  IF a.negative = 0 /\ num.negative # 0 THEN BN(1, num.mag) ELSE num

BN_isub_arg(a, num) ==
  IF num.negative # 0 THEN BN(1, num.mag) ELSE num

\* imul: the sign is the xor of the signs, then strip() normalises a zero.
BN_imul(a, num) ==
  BN_normSign(BN(IF a.negative = num.negative THEN 0 ELSE 1, a.mag * num.mag))

\* a.isub(a), the argument being the receiver itself.  For a negative a the
\* first branch of isub clears num.negative, which is this.negative, adds
\* the number to itself and sets the flag again: the result is 2a.  For
\* the others cmp === 0 makes the receiver zero.
BN_isub_self(a) ==
  IF a.negative # 0 THEN BN_normSign(BN(1, a.mag + a.mag)) ELSE BN(0, 0)

\* The bits of two magnitudes combined, bit by bit.
RECURSIVE Bitwise(_, _, _)
Bitwise(op, m, n) ==
  IF m = 0 /\ n = 0 THEN 0
  ELSE LET i == m % 2
           j == n % 2
           bit == CASE op = "xor" -> (i + j) % 2
                    [] op = "and" -> i * j
                    [] op = "or" -> IF i + j > 0 THEN 1 ELSE 0
       IN 2 * Bitwise(op, m \div 2, n \div 2) + bit

BN_mul(a, num) == BN_imul(BN_clone(a), num)
BN_sub(a, num) == BN_isub(BN_clone(a), num)
BN_add(a, num) == BN_iadd(BN_clone(a), num)

\* iushrn / iushln: unsigned shifts of the magnitude, the sign flag is kept
\* and strip() normalises a zero.
BN_iushrn(a, bits) == BN_normSign(BN(a.negative, a.mag \div Pow2(bits)))
BN_iushln(a, bits) == BN_normSign(BN(a.negative, a.mag * Pow2(bits)))

\* maskn / imaskn: the low `bits` bits (asserted non-negative by the callers).
BN_imaskn(a, bits) == BN_normSign(BN(a.negative, a.mag % Pow2(bits)))


(***************************************************************************)
(* Results of calls that may throw: err is "" when the call returns.       *)
(***************************************************************************)
NoBN == BN(0, 0)
Ok(v) == [err |-> "", val |-> v]
Throw(msg) == [err |-> msg, val |-> NoBN]

AssertionFailed == "Assertion failed"

\* testn(bit): asserts a bit number that is not negative, then tells
\* whether the bit of that number is set in the magnitude.
BN_testn(a, bit) ==
  IF bit < 0 THEN Throw(AssertionFailed)
  ELSE Ok((a.mag \div Pow2(bit)) % 2 = 1)

\* ixor, iand, ior: assert((this.negative | num.negative) === 0), then
\* iuxor, iuand, iuor combine the words and strip.
BN_ixor(a, num) ==
  IF a.negative # 0 \/ num.negative # 0 THEN Throw(AssertionFailed)
  ELSE Ok(BN(0, Bitwise("xor", a.mag, num.mag)))

BN_iand(a, num) ==
  IF a.negative # 0 \/ num.negative # 0 THEN Throw(AssertionFailed)
  ELSE Ok(BN(0, Bitwise("and", a.mag, num.mag)))

BN_ior(a, num) ==
  IF a.negative # 0 \/ num.negative # 0 THEN Throw(AssertionFailed)
  ELSE Ok(BN(0, Bitwise("or", a.mag, num.mag)))

(***************************************************************************)
(* bn.js division: divmod(num, 'mod', positive).mod, for num # 0.          *)
(***************************************************************************)
RECURSIVE BN_divmod_mod(_, _, _)
BN_divmod_mod(a, num, positive) ==
  IF BN_isZero(a) THEN BN(0, 0)
  ELSE IF a.negative # 0 /\ num.negative = 0 THEN
    LET res == BN_divmod_mod(BN_neg(a), num, FALSE)
        mod == BN_neg(res)
    IN IF positive /\ mod.negative # 0 THEN BN_iadd(mod, num) ELSE mod
  ELSE IF a.negative = 0 /\ num.negative # 0 THEN
    BN_divmod_mod(a, BN_neg(num), FALSE)
  ELSE IF a.negative # 0 /\ num.negative # 0 THEN
    LET res == BN_divmod_mod(BN_neg(a), BN_neg(num), FALSE)
        mod == BN_neg(res)
    IN IF positive /\ mod.negative # 0 THEN BN_isub(mod, num) ELSE mod
  ELSE IF BN_cmp(a, num) < 0 THEN a
  ELSE BN(0, a.mag % num.mag)

\* What num holds after this.umod(num): divmod works on this.neg() and on
\* num.neg(), which are new numbers, and reads num everywhere else; only for
\* a negative this and a negative num does it hand num itself to isub, in
\* mod.isub(num) on a negative remainder.
BN_umod_arg(a, num) ==
  IF ~BN_isZero(a) /\ a.negative # 0 /\ num.negative # 0
  THEN LET mod == BN_neg(BN_divmod_mod(BN_neg(a), BN_neg(num), FALSE))
       IN IF mod.negative # 0 THEN BN_isub_arg(mod, num) ELSE num
  ELSE num

\* (mutant) umod without the assertion: a zero divisor gives zero.
BN_umod_unasserted(a, num) ==
  IF BN_isZero(num) THEN Ok(BN(0, 0))
  ELSE Ok(BN_divmod_mod(a, num, TRUE))

\* umod(num): divmod asserts a non-zero divisor.
BN_umod(a, num) ==
  IF BN_isZero(num) THEN Throw(AssertionFailed)
  ELSE Ok(BN_divmod_mod(a, num, TRUE))

(***************************************************************************)
(* bn.js conversions: toNumber, bitLength, byteLength, toArrayLike.        *)
(***************************************************************************)
UnsafeNumber == "Number can only safely store up to 53 bits"
ArrayTooShort == "byte array longer than desired length"
ArrayLengthNotPositive == "Requested array length <= 0"

\* Width of a word of a bn.js number.
bnWordSize == 26

\* A number as bn.js holds it, for the numbers an integer of the model is
\* too narrow for: the sign flag and the words of the magnitude, the least
\* significant first, the top word non-zero unless the number is zero (which
\* has the one word 0).
BN_wide(negative, words) == [negative |-> negative, words |-> words]

\* The words of a magnitude.
RECURSIVE BN_words(_)
BN_words(mag) ==
  IF mag < Pow2(bnWordSize) THEN <<mag>>
  ELSE <<mag % Pow2(bnWordSize)>> \o BN_words(mag \div Pow2(bnWordSize))

\* The number a holds, in words.
BN_widen(a) == BN_wide(a.negative, BN_words(a.mag))

\* A JavaScript Number that holds an integer of at most 53 bits:
\* (hi * 2^26 + lo), negated when negative is set.
Number(negative, hi, lo) == [negative |-> negative, hi |-> hi, lo |-> lo]

\* The Number as an integer of the model, when it is narrow enough.
Number_int(n) ==
  IF n.negative # 0 THEN 0 - (n.hi * Pow2(bnWordSize) + n.lo)
  ELSE n.hi * Pow2(bnWordSize) + n.lo

\* (mutant) toNumber without the assertion: the two low words of any number.
BN_toNumber_truncating(w) ==
  Ok(Number(w.negative, IF Len(w.words) >= 2 THEN w.words[2] ELSE 0, w.words[1]))

\* toNumber(): ret = words[0]; with two words ret += words[1] * 0x4000000;
\* with three words of which the third is 1, ret += 0x10000000000000 +
\* words[1] * 0x4000000; the assertion fails for anything longer; the
\* result is -ret when the sign flag is set.
BN_toNumber(w) ==
  LET length == Len(w.words)
  IN IF length = 2 THEN Ok(Number(w.negative, w.words[2], w.words[1]))
     ELSE IF length = 3 /\ w.words[3] = 1
     THEN Ok(Number(w.negative, Pow2(bnWordSize) + w.words[2], w.words[1]))
     ELSE IF length > 2 THEN Throw(UnsafeNumber)
     ELSE Ok(Number(w.negative, 0, w.words[1]))

\* Bits in a byte of a Uint8Array.
byteBits == 8

BN_bitLength(a) == BitLen(a.mag)
\* byteLength(): Math.ceil(this.bitLength() / 8)
BN_byteLength(a) == (BN_bitLength(a) + byteBits - 1) \div byteBits

\* q.andln(0xff) after i shifts by 8: byte i of the magnitude; the loop ends
\* when q is zero and the bytes above stay as the zeroed array has them.
BN_byte(a, i) ==
  IF i >= BN_byteLength(a) THEN 0
  ELSE (a.mag \div Pow2(i * byteBits)) % Pow2(byteBits)

\* (mutant) toArrayLike that lays the bytes out big-endian whatever endian
\* says.
BN_toArrayLike_bigEndianOnly(a, endian, length) ==
  LET byteLength == BN_byteLength(a)
      reqLength == IF length # 0 THEN length
                   ELSE IF byteLength > 1 THEN byteLength ELSE 1
  IN IF byteLength > reqLength THEN Throw(ArrayTooShort)
     ELSE IF reqLength <= 0 THEN Throw(ArrayLengthNotPositive)
     ELSE Ok([j \in 1..reqLength |-> BN_byte(a, reqLength - j)])

\* (mutant) toArrayLike without the assertion on the length: the low
\* reqLength bytes are laid out and the others are dropped.
BN_toArrayLike_truncating(a, endian, length) ==
  LET byteLength == BN_byteLength(a)
      reqLength == IF length # 0 THEN length
                   ELSE IF byteLength > 1 THEN byteLength ELSE 1
  IN IF reqLength <= 0 THEN Throw(ArrayLengthNotPositive)
     ELSE IF endian = "le" THEN Ok([j \in 1..reqLength |-> BN_byte(a, j - 1)])
     ELSE Ok([j \in 1..reqLength |-> BN_byte(a, reqLength - j)])

\* toArrayLike(Uint8Array, endian, length): reqLength = length ||
\* Math.max(1, byteLength) (an omitted length is written 0 here, which ||
\* treats alike); the array starts zeroed, byte i of the magnitude goes to
\* index reqLength - i - 1 (big-endian) or to index i ('le').
BN_toArrayLike(a, endian, length) ==
  LET byteLength == BN_byteLength(a)
      reqLength == IF length # 0 THEN length
                   ELSE IF byteLength > 1 THEN byteLength ELSE 1
  IN IF byteLength > reqLength THEN Throw(ArrayTooShort)
     ELSE IF reqLength <= 0 THEN Throw(ArrayLengthNotPositive)
     ELSE IF endian = "le" THEN Ok([j \in 1..reqLength |-> BN_byte(a, j - 1)])
     ELSE Ok([j \in 1..reqLength |-> BN_byte(a, reqLength - j)])

\* toString(10): the decimal digits of the magnitude, '0' for a zero
\* magnitude, then '-' in front when the sign flag is set.
RECURSIVE BN_digits(_)
BN_digits(m) ==
  LET d == <<"0", "1", "2", "3", "4", "5", "6", "7", "8", "9">>[(m % 10) + 1]
  IN IF m < 10 THEN d ELSE BN_digits(m \div 10) \o d

BN_toString(a) ==
  IF a.negative # 0 THEN "-" \o BN_digits(a.mag) ELSE BN_digits(a.mag)

(***************************************************************************)
(* bn.js gcd: binary gcd on the magnitudes.                                *)
(***************************************************************************)
RECURSIVE BN_gcd_strip(_)
BN_gcd_strip(a) == IF BN_isEven(a) THEN BN_gcd_strip(BN_iushrn(a, 1)) ELSE a

RECURSIVE BN_gcd_loop(_, _)
BN_gcd_loop(a0, b0) ==
  LET a == BN_gcd_strip(a0)
      b == BN_gcd_strip(b0)
      r == BN_cmp(a, b)
  IN IF r < 0 THEN BN_gcd_loop(BN_isub(b, a), a)
     ELSE IF r = 0 \/ b.mag = 1 THEN b
     ELSE BN_gcd_loop(BN_isub(a, b), b)

RECURSIVE BN_gcd_common(_, _, _)
BN_gcd_common(a, b, shift) ==
  IF BN_isEven(a) /\ BN_isEven(b)
  THEN BN_gcd_common(BN_iushrn(a, 1), BN_iushrn(b, 1), shift + 1)
  ELSE BN_iushln(BN_gcd_loop(a, b), shift)

\* (mutant) gcd that returns a zero receiver's argument as it is, sign kept.
BN_gcd_signed(a, num) ==
  IF BN_isZero(a) THEN BN_clone(num)
  ELSE IF BN_isZero(num) THEN BN_clone(a)
  ELSE BN_gcd_common(BN(0, a.mag), BN(0, num.mag), 0)

BN_gcd(a, num) ==
  IF BN_isZero(a) THEN BN_abs(num)
  ELSE IF BN_isZero(num) THEN BN_abs(a)
  ELSE BN_gcd_common(BN(0, a.mag), BN(0, num.mag), 0)

(***************************************************************************)
(* bn.js egcd / invm: binary extended Euclid.                              *)
(***************************************************************************)
\* The scan "for (i = 0, im = 1; (x.words[0] & im) === 0 && i < 26; ...)":
\* the trailing zero bits of the low word, at most a word.
RECURSIVE LowZeros(_, _)
LowZeros(w, i) ==
  IF i < wordSize /\ (w \div Pow2(i)) % 2 = 0 THEN LowZeros(w, i + 1) ELSE i

BN_lowZeros(x) == LowZeros(x.mag % Pow2(wordSize), 0)

\* "while (i-- > 0) { if (A.isOdd() || B.isOdd()) { A.iadd(yp); B.isub(xp); }
\*  A.iushrn(1); B.iushrn(1); }"
RECURSIVE BN_egcd_halve(_, _, _, _, _)
BN_egcd_halve(A, B, i, xp, yp) ==
  IF i <= 0 THEN <<A, B>>
  ELSE LET odd == BN_isOdd(A) \/ BN_isOdd(B)
           A1 == IF odd THEN BN_iadd(A, yp) ELSE A
           B1 == IF odd THEN BN_isub(B, xp) ELSE B
       IN BN_egcd_halve(BN_iushrn(A1, 1), BN_iushrn(B1, 1), i - 1, xp, yp)

\* The main loop, on the state s = [x, y, A, B, C, D].
RECURSIVE BN_egcd_loop(_, _, _)
BN_egcd_loop(s, xp, yp) ==
  IF BN_isZero(s.x) THEN s
  ELSE
    LET i == BN_lowZeros(s.x)
        x == IF i > 0 THEN BN_iushrn(s.x, i) ELSE s.x
        AB == BN_egcd_halve(s.A, s.B, i, xp, yp)
        j == BN_lowZeros(s.y)
        y == IF j > 0 THEN BN_iushrn(s.y, j) ELSE s.y
        CD == BN_egcd_halve(s.C, s.D, j, xp, yp)
    IN IF BN_cmp(x, y) >= 0
       THEN BN_egcd_loop([x |-> BN_isub(x, y), y |-> y,
                          A |-> BN_isub(AB[1], CD[1]), B |-> BN_isub(AB[2], CD[2]),
                          C |-> CD[1], D |-> CD[2]], xp, yp)
       ELSE BN_egcd_loop([x |-> x, y |-> BN_isub(y, x),
                          A |-> AB[1], B |-> AB[2],
                          C |-> BN_isub(CD[1], AB[1]), D |-> BN_isub(CD[2], AB[2])],
                         xp, yp)

RECURSIVE BN_egcd_common(_, _, _)
BN_egcd_common(x, y, g) ==
  IF BN_isEven(x) /\ BN_isEven(y)
  THEN BN_egcd_common(BN_iushrn(x, 1), BN_iushrn(y, 1), g + 1)
  ELSE LET r == BN_egcd_loop([x |-> x, y |-> y, A |-> BN(0, 1), B |-> BN(0, 0),
                              C |-> BN(0, 0), D |-> BN(0, 1)], x, y)
       IN [a |-> r.C, b |-> r.D, gcd |-> BN_iushln(r.y, g)]

\* egcd(p): asserts p >= 0 and p # 0; a negative receiver is first reduced.
BN_egcd(a, p) ==
  BN_egcd_common(IF a.negative # 0 THEN BN_divmod_mod(a, p, TRUE) ELSE BN_clone(a),
                 BN_clone(p), 0)

\* (mutant) invm without the final umod: the Bezout coefficient as it comes.
BN_invm_unreduced(a, num) ==
  IF num.negative # 0 \/ BN_isZero(num) THEN Throw(AssertionFailed)
  ELSE Ok(BN_egcd(a, num).a)

BN_invm(a, num) ==
  IF num.negative # 0 \/ BN_isZero(num) THEN Throw(AssertionFailed)
  ELSE BN_umod(BN_egcd(a, num).a, num)


(***************************************************************************)
(* bn.js _invmp, used by the Montgomery context for r^-1 mod m.            *)
(***************************************************************************)
RECURSIVE BN_invmp_halve(_, _, _)
BN_invmp_halve(x, i, delta) ==
  IF i <= 0 THEN x
  ELSE BN_invmp_halve(BN_iushrn(IF BN_isOdd(x) THEN BN_iadd(x, delta) ELSE x, 1),
                      i - 1, delta)

\* The main loop, on the state s = [a, b, x1, x2].
RECURSIVE BN_invmp_loop(_, _)
BN_invmp_loop(s, delta) ==
  IF ~(BN_cmp(s.a, BN(0, 1)) > 0 /\ BN_cmp(s.b, BN(0, 1)) > 0)
  THEN IF BN_cmp(s.a, BN(0, 1)) = 0 THEN s.x1 ELSE s.x2
  ELSE
    LET i == BN_lowZeros(s.a)
        a == IF i > 0 THEN BN_iushrn(s.a, i) ELSE s.a
        y1 == BN_invmp_halve(s.x1, i, delta)
        j == BN_lowZeros(s.b)
        b == IF j > 0 THEN BN_iushrn(s.b, j) ELSE s.b
        y2 == BN_invmp_halve(s.x2, j, delta)
    IN IF BN_cmp(a, b) >= 0
       THEN BN_invmp_loop([a |-> BN_isub(a, b), b |-> b,
                           x1 |-> BN_isub(y1, y2), x2 |-> y2], delta)
       ELSE BN_invmp_loop([a |-> a, b |-> BN_isub(b, a),
                           x1 |-> y1, x2 |-> BN_isub(y2, y1)], delta)

BN_invmp(a, p) ==
  LET res == BN_invmp_loop([a |-> IF a.negative # 0 THEN BN_divmod_mod(a, p, TRUE)
                                   ELSE BN_clone(a),
                            b |-> BN_clone(p), x1 |-> BN(0, 1), x2 |-> BN(0, 0)],
                           BN_clone(p))
  IN IF BN_cmp(res, BN(0, 0)) < 0 THEN BN_iadd(res, p) ELSE res

(***************************************************************************)
(* bn.js reduction contexts: BN.red(m) and BN.mont(m).                     *)
(***************************************************************************)
ModulusTooSmall == "modulus must be greater than 1"
RedOnlyPositives == "red works only with positives"

\* Red(m): "assert(m.gtn(1), 'modulus must be greater than 1')".
Red_valid(m) == BN_cmp(m, BN(0, 1)) > 0

BN_red(m) ==
  [kind |-> "red", m |-> m, shift |-> 0, r |-> NoBN, rinv |-> NoBN, minv |-> NoBN]

\* Mont(m): shift is the bit length of m rounded up to whole words.
Mont_shift(m) ==
  LET bl == BitLen(m.mag)
  IN IF bl % wordSize # 0 THEN bl + (wordSize - (bl % wordSize)) ELSE bl

BN_mont(m) ==
  LET shift == Mont_shift(m)
      r == BN_iushln(BN(0, 1), shift)
      rinv == BN_invmp(r, m)
      q == BN(0, BN_isub(BN_mul(rinv, r), BN(0, 1)).mag \div m.mag)
      minv == BN_sub(r, BN_divmod_mod(q, r, TRUE))
  IN [kind |-> "mont", m |-> m, shift |-> shift, r |-> r, rinv |-> rinv,
      minv |-> minv]

\* Red.imod(a): a.umod(this.m).
Red_imod(ctx, a) == BN_divmod_mod(a, ctx.m, TRUE)

\* convertTo: Red reduces the number, Mont multiplies it by r first.
Red_convertTo(ctx, num) ==
  IF ctx.kind = "mont" THEN Red_imod(ctx, BN_iushln(BN_clone(num), ctx.shift))
  ELSE Red_imod(ctx, num)

\* convertFrom: Red copies the number, Mont multiplies it by r^-1.
Red_convertFrom(ctx, num) ==
  IF ctx.kind = "mont" THEN Red_imod(ctx, BN_mul(num, ctx.rinv))
  ELSE BN_clone(num)

\* Mont.mul: t = a*b; c = ((t mod r) * minv mod r) * m; u = (t - c) / r,
\* brought back into [0, m).  Red.mul: (a*b) umod m.
Mont_mul(ctx, a, b) ==
  IF BN_isZero(a) \/ BN_isZero(b) THEN BN(0, 0)
  ELSE
    LET t == BN_mul(a, b)
        c == BN_mul(BN_imaskn(BN_mul(BN_imaskn(BN_clone(t), ctx.shift), ctx.minv),
                              ctx.shift), ctx.m)
        u == BN_iushrn(BN_isub(t, c), ctx.shift)
    IN IF BN_cmp(u, ctx.m) >= 0 THEN BN_isub(u, ctx.m)
       ELSE IF BN_cmp(u, BN(0, 0)) < 0 THEN BN_iadd(u, ctx.m)
       ELSE u

Red_mul(ctx, a, b) ==
  IF ctx.kind = "mont" THEN Mont_mul(ctx, a, b)
  ELSE Red_imod(ctx, BN_mul(a, b))

Red_sqr(ctx, a) == Red_mul(ctx, a, a)

(***************************************************************************)
(* Red.pow(a, num): 4-bit windowed exponentiation over the bits of num,    *)
(* from the highest bit down.                                              *)
(***************************************************************************)
windowSize == 4

\* "wnd[0] = new BN(1).toRed(this); wnd[1] = a; wnd[i] = mul(wnd[i-1], a)":
\* the table of a^0 .. a^15, entry i of the code at index i + 1.
RECURSIVE Red_wnd(_, _, _)
Red_wnd(ctx, a, wnd) ==
  IF Len(wnd) = Pow2(windowSize) THEN wnd
  ELSE Red_wnd(ctx, a, Append(wnd, Red_mul(ctx, wnd[Len(wnd)], a)))

\* The double loop over the bits of num; s.k is the number of the bit
\* (0 is the last one), s.isWnd0 tells whether res is still the object wnd[0].
RECURSIVE Red_pow_loop(_, _, _, _)
Red_pow_loop(ctx, wnd, num, s) ==
  IF s.k < 0 THEN s.res
  ELSE
    LET bit == (num.mag \div Pow2(s.k)) % 2
        res == IF ~s.isWnd0 THEN Red_sqr(ctx, s.res) ELSE s.res
        current == 2 * s.current + bit
        currentLen == s.currentLen + 1
    IN IF bit = 0 /\ s.currentLen = 0
       THEN Red_pow_loop(ctx, wnd, num,
              [k |-> s.k - 1, res |-> res, isWnd0 |-> s.isWnd0,
               current |-> 0, currentLen |-> s.currentLen])
       ELSE IF currentLen # windowSize /\ s.k # 0
       THEN Red_pow_loop(ctx, wnd, num,
              [k |-> s.k - 1, res |-> res, isWnd0 |-> s.isWnd0,
               current |-> current, currentLen |-> currentLen])
       ELSE Red_pow_loop(ctx, wnd, num,
              [k |-> s.k - 1, res |-> Red_mul(ctx, res, wnd[current + 1]),
               isWnd0 |-> FALSE, current |-> 0, currentLen |-> 0])

Red_pow(ctx, a, num) ==
  IF BN_isZero(num) THEN Red_convertTo(ctx, BN(0, 1))
  ELSE IF BN_cmp(num, BN(0, 1)) = 0 THEN BN_clone(a)
  ELSE LET wnd == Red_wnd(ctx, a, <<Red_convertTo(ctx, BN(0, 1)), a>>)
       IN Red_pow_loop(ctx, wnd, num,
            [k |-> BitLen(num.mag) - 1, res |-> wnd[1], isWnd0 |-> TRUE,
             current |-> 0, currentLen |-> 0])

(***************************************************************************)
(* class BNBigInteger: the methods, on the bn.js number held in `value`.   *)
(* Each returns Ok(the resulting bn.js number) or Throw(the message).      *)
(***************************************************************************)
InvalidInput == "Invalid BigInteger input"
InverseDoesNotExist == "Inverse does not exist"

\* Inputs of a constructor: a number, no argument at all, or null.
Num(v) == [t |-> "number", v |-> v]
Undefined == [t |-> "undefined", v |-> 0]
Null == [t |-> "null", v |-> 0]

\* new BN(null, 10): the bn.js constructor skips _init, the number keeps
\* words = null and length = 0.  It is no integer; the model writes it with
\* a magnitude below zero.
BN_empty == BN(0, 0 - 1)

\* (mutant) a constructor without the test for undefined: new BN(undefined)
\* is the number 0.
BNBigInteger_constructor_unchecked(n) ==
  IF n = Null THEN Ok(BN_empty) ELSE Ok(BN_new(n.v))

\* constructor(n): undefined is refused, anything else goes to new BN(n, base).
BNBigInteger_constructor(n) ==
  IF n = Undefined THEN Throw(InvalidInput)
  ELSE IF n = Null THEN Ok(BN_empty)
  ELSE Ok(BN_new(n.v))

clone(a) == BN_clone(a)

isOne(a) == BN_eq(a, BN_new(1))
isEven(a) == BN_isEven(a)

\* isZero(), isNegative(), equal(x), toString()
isZero(a) == BN_isZero(a)
isNegative(a) == BN_isNeg(a)
equal(a, x) == BN_eq(a, x)
\* lt(x), lte(x), gt(x), gte(x): this.value.lt(x.value) and so on, each a
\* test of cmp.
lt(a, x) == BN_cmp(a, x) < 0
lte(a, x) == BN_cmp(a, x) <= 0
gt(a, x) == BN_cmp(a, x) > 0
gte(a, x) == BN_cmp(a, x) >= 0
\* getBit(i): this.value.testn(i) ? 1 : 0.
getBit(a, i) ==
  LET t == BN_testn(a, i)
  IN IF t.err # "" THEN t ELSE Ok(IF t.val THEN 1 ELSE 0)
toString(a) == BN_toString(a)

\* iinc(): this.value.iadd(new BN(1)); idec(): this.value.isub(new BN(1)).
iinc(a) == BN_iadd(a, BN_new(1))
idec(a) == BN_isub(a, BN_new(1))

\* toNumber(), bitLength(), byteLength(), toUint8Array(endian = 'be', length)
toNumber(a) == BN_toNumber(a)
bitLength(a) == BN_bitLength(a)
byteLength(a) == BN_byteLength(a)
toUint8Array(a, endian, length) == BN_toArrayLike(a, endian, length)

\* (mutant) imod with mod in place of umod: the remainder keeps the sign.
imod_signed(a, m) ==
  IF BN_isZero(m) THEN Throw(AssertionFailed)
  ELSE Ok(BN_divmod_mod(a, m, FALSE))

\* imod(m): this.value = this.value.umod(m.value).
imod(a, m) == BN_umod(a, m)

\* mod(m): this.clone().imod(m).
mod(a, m) == imod(clone(a), m)

\* gcd(n): new BNBigInteger(this.value.gcd(n.value)).
gcd(a, n) == BN_gcd(a, n)

\* (mutant) modInv without the gcd test.
modInv_unchecked(a, n) == BN_invm(a, n)

\* modInv(n): refuses when gcd(this, n) is not one, else invm.
modInv(a, n) ==
  IF ~isOne(gcd(a, n)) THEN Throw(InverseDoesNotExist)
  ELSE BN_invm(a, n)

\* modExp(e, n): a Montgomery context for odd n, a plain one for even n;
\* x.toRed(nred).redPow(e).fromRed().
modExp(x, e, n) ==
  IF ~Red_valid(n) THEN Throw(ModulusTooSmall)
  ELSE IF clone(x).negative # 0 THEN Throw(RedOnlyPositives)
  ELSE LET nred == IF isEven(n) THEN BN_red(n) ELSE BN_mont(n)
           xr == Red_convertTo(nred, clone(x))
       IN Ok(Red_convertFrom(nred, Red_pow(nred, xr, e)))


(***************************************************************************)
(* Reference notions the properties are stated with.                       *)
(***************************************************************************)
Abs(i) == IF i < 0 THEN 0 - i ELSE i

Divides(d, i) == \E k \in (0 - Abs(i))..Abs(i) : i = k * d

\* The greatest common divisor of two naturals, by definition.
MathGcd(i, j) ==
  IF i = 0 /\ j = 0 THEN 0
  ELSE CHOOSE d \in 1..(i + j) :
         /\ Divides(d, i) /\ Divides(d, j)
         /\ \A f \in 1..(i + j) : Divides(f, i) /\ Divides(f, j) => f <= d

\* Square-and-multiply with one multiplication and one reduction a step.
RECURSIVE SquareAndMultiply(_, _, _)
SquareAndMultiply(x, e, n) ==
  IF e = 0 THEN 1 % n
  ELSE LET h == SquareAndMultiply(x, e \div 2, n)
           sq == (h * h) % n
       IN IF e % 2 = 1 THEN (sq * x) % n ELSE sq

(***************************************************************************)
(* Method dispatch.  A call o.m(...) on a value object looks m up in the   *)
(* class of o; a method the class does not define is not a function.       *)
(***************************************************************************)
NotAFunction == "TypeError: not a function"

\* The methods the abstract class BigInteger declares.
BigInteger_abstract ==
  {"clone", "iinc", "inc", "idec", "dec", "iadd", "add", "isub", "sub",
   "imul", "mul", "imod", "mod", "modExp", "modInv", "idiv", "div", "gcd",
   "ileftShift", "leftShift", "irightShift", "rightShift",
   "equal", "lt", "lte", "gt", "gte", "isZero", "isOne", "isNegative", "isEven",
   "abs", "negate", "toString", "toNumber", "getBit",
   "ixor", "xor", "ibitwiseAnd", "bitwiseAnd", "ibitwiseOr",
   "bitLength", "byteLength", "toUint8Array"}

\* The methods class BNBigInteger defines.
BNBigInteger_methods ==
  {"clone", "iinc", "inc", "idec", "dec", "iadd", "add", "isub", "sub",
   "imul", "mul", "imod", "mod", "modExp", "modInv", "gcd",
   "ileftShift", "leftShift", "irightShift", "rightShift",
   "ixor", "ibitwiseAnd", "bitwiseAnd", "ibitwiseOr",
   "equal", "lt", "lte", "gt", "gte", "isZero", "isOne", "isNegative", "isEven",
   "abs", "toString", "toNumber", "getBit", "bitLength", "byteLength",
   "toUint8Array"}

\* ileftShift(x): this.value.ishln(x.value.toNumber()); ishln asserts a
\* non-negative receiver, iushln a non-negative number of bits.
ileftShift(a, x) ==
  LET bits == BN_toNumber(BN_widen(x))
  IN IF bits.err # "" THEN bits
     ELSE IF a.negative # 0 \/ Number_int(bits.val) < 0 THEN Throw(AssertionFailed)
     ELSE Ok(BN_iushln(a, Number_int(bits.val)))

\* irightShift(x): this.value.ishrn(x.value.toNumber()), with the same
\* assertions.
irightShift(a, x) ==
  LET bits == BN_toNumber(BN_widen(x))
  IN IF bits.err # "" THEN bits
     ELSE IF a.negative # 0 \/ Number_int(bits.val) < 0 THEN Throw(AssertionFailed)
     ELSE Ok(BN_iushrn(a, Number_int(bits.val)))

\* abs(): res = this.clone(); res.value = res.value.abs().
abs(a) == BN_abs(clone(a))

\* The in-place methods: the value the receiver holds after this.m(x).
BNBigInteger_inPlace(op, a, x) ==
  CASE op = "iadd" -> Ok(BN_iadd(a, x))
    [] op = "isub" -> Ok(BN_isub(a, x))
    [] op = "imul" -> Ok(BN_imul(a, x))
    [] op = "imod" -> imod(a, x)
    [] op = "ileftShift" -> ileftShift(a, x)
    [] op = "irightShift" -> irightShift(a, x)
    [] op = "ixor" -> BN_ixor(a, x)
    [] op = "ibitwiseAnd" -> BN_iand(a, x)
    [] op = "ibitwiseOr" -> BN_ior(a, x)
    [] OTHER -> Throw(NotAFunction)

\* The same when the argument is the receiver itself, a.m(a): bn.js then
\* reads and writes one number object.  Only isub gives another value than
\* it gives for an equal number in another object (imul multiplies a clone
\* of the receiver into the receiver, which is exact for a number of one
\* word, as every number of the model is).
BNBigInteger_inPlaceSelf(op, a) ==
  IF op = "isub" THEN Ok(BN_isub_self(a)) ELSE BNBigInteger_inPlace(op, a, a)

\* What the argument x holds after this.m(x), a being the number the method
\* works on (this.value, or its clone in a pure method).  iadd and isub hand
\* x.value to bn.js iadd / isub and imod hands it to umod, which write its
\* sign flag; imul (mulTo), the shifts (x.value.toNumber()), the bitwise
\* methods (word reads), gcd (num.clone()), modInv (gcd, then invm, whose
\* egcd clones p and whose umod meets a modulus that is not negative) and
\* the comparisons (cmp) read x.value and write nothing to it.
BNBigInteger_argAfter(op, a, x) ==
  CASE op = "iadd" -> BN_iadd_arg(a, x)
    [] op = "isub" -> BN_isub_arg(a, x)
    [] op = "imod" -> BN_umod_arg(a, x)
    [] op \in {"imul", "ileftShift", "irightShift", "ixor", "ibitwiseAnd",
               "ibitwiseOr", "gcd", "modInv", "modExp",
               "equal", "lt", "lte", "gt", "gte"} -> x

\* What the receiver's number holds after a method that returns no value
\* object: toUint8Array calls this.value.toArrayLike, which begins with
\* this.strip(); the comparisons and predicates read the words and the sign
\* flag, toString and toNumber and the two lengths read the words.
BNBigInteger_thisAfter(op, a) ==
  IF op = "toUint8Array" THEN BN_strip(a) ELSE a

\* The pure form of an in-place method, and back.
InPlaceOf(op) ==
  CASE op = "add" -> "iadd" [] op = "sub" -> "isub" [] op = "mul" -> "imul"
    [] op = "div" -> "idiv" [] op = "mod" -> "imod"
    [] op = "leftShift" -> "ileftShift" [] op = "rightShift" -> "irightShift"
    [] op = "xor" -> "ixor" [] op = "bitwiseAnd" -> "ibitwiseAnd"

\* The pure methods: m(x) { return this.clone().im(x); }
BNBigInteger_pure(op, a, x) == BNBigInteger_inPlace(InPlaceOf(op), clone(a), x)

\* inc() { return this.clone().iinc(); } and dec() likewise.
inc(a) == iinc(clone(a))
dec(a) == idec(clone(a))

\* (mutant) a clone that hands its own number to the new instance:
\* new BNBigInteger(this.value).
BNBigInteger_holds_receiver(op) == IF op = "clone" THEN "this" ELSE "new"

\* The bn.js number object the instance returned by a method holds: "new",
\* an object made during the call, or "this", the receiver's own.  The
\* constructor keeps the reference it is given; clone() gives it
\* this.value.clone(), modInv() the result of invm(), gcd() the result of
\* gcd(); abs() and modExp() assign the result of abs() and fromRed() to the
\* field of a clone.  Each of these is an object bn.js makes in the call.
BNBigInteger_holds(op) == "new"

\* (mutant) methods that build their result with the active backend.
BNBigInteger_returns_active(cls, active) == active

\* The class of the object a method of BNBigInteger returns when it returns
\* a new object: clone(), modInv() and gcd() say "new BNBigInteger(...)",
\* the others start from this.clone().
BNBigInteger_returns(cls, active) == "BN"

(***************************************************************************)
(* The native backend, from its contract: integer arithmetic on the value. *)
(***************************************************************************)
DivisionByZero == "DivisionByZero"
UnsupportedExponent == "Unsupported negative exponent"

NativeBigInteger_methods == BNBigInteger_methods \cup
  {"idiv", "div", "negate", "xor"}

NativeBigInteger_constructor(n) ==
  IF n = Undefined \/ n = Null THEN Throw(InvalidInput) ELSE Ok(BN_new(n.v))

TruncDiv(i, j) == IF (i < 0) = (j < 0) THEN Abs(i) \div Abs(j) ELSE 0 - (Abs(i) \div Abs(j))

\* The bitwise operators of BigInt, on two's complement of any width.
RECURSIVE Native_bitwise(_, _, _)
Native_bitwise(op, i, j) ==
  IF i \in {0, 0 - 1} /\ j \in {0, 0 - 1}
  THEN CASE op = "xor" -> IF i = j THEN 0 ELSE 0 - 1
         [] op = "and" -> IF i = 0 - 1 /\ j = 0 - 1 THEN 0 - 1 ELSE 0
         [] op = "or" -> IF i = 0 - 1 \/ j = 0 - 1 THEN 0 - 1 ELSE 0
  ELSE 2 * Native_bitwise(op, (i - (i % 2)) \div 2, (j - (j % 2)) \div 2)
         + Bitwise(op, i % 2, j % 2)

Native_shift(i, k) ==
  IF k >= 0 THEN i * Pow2(k) ELSE i \div Pow2(0 - k)

NativeBigInteger_inPlace(op, a, x) ==
  LET i == BN_int(a)
      j == BN_int(x)
  IN CASE op = "iadd" -> Ok(BN_new(i + j))
       [] op = "isub" -> Ok(BN_new(i - j))
       [] op = "imul" -> Ok(BN_new(i * j))
       [] op = "idiv" -> IF j = 0 THEN Throw(DivisionByZero) ELSE Ok(BN_new(TruncDiv(i, j)))
       [] op = "imod" -> IF j = 0 THEN Throw(DivisionByZero) ELSE Ok(BN_new(i % Abs(j)))
       [] op = "ileftShift" -> Ok(BN_new(Native_shift(i, j)))
       [] op = "irightShift" -> Ok(BN_new(Native_shift(i, 0 - j)))
       [] op = "ixor" -> Ok(BN_new(Native_bitwise("xor", i, j)))
       [] op = "ibitwiseAnd" -> Ok(BN_new(Native_bitwise("and", i, j)))
       [] op = "ibitwiseOr" -> Ok(BN_new(Native_bitwise("or", i, j)))
       [] OTHER -> Throw(NotAFunction)

NativeBigInteger_pure(op, a, x) == NativeBigInteger_inPlace(InPlaceOf(op), a, x)

NativeBigInteger_gcd(a, b) == BN_new(MathGcd(a.mag, b.mag))

NativeBigInteger_modInv(a, n) ==
  IF BN_int(n) <= 0 \/ MathGcd(a.mag, n.mag) # 1 THEN Throw(InverseDoesNotExist)
  ELSE Ok(BN_new(CHOOSE x \in 0..(n.mag - 1) :
                   n.mag = 1 \/ (BN_int(a) * x) % n.mag = 1))

NativeBigInteger_modExp(x, e, n) ==
  IF BN_isZero(n) THEN Throw(DivisionByZero)
  ELSE IF e.negative # 0 THEN Throw(UnsupportedExponent)
  ELSE Ok(BN_new(SquareAndMultiply(BN_int(x) % n.mag, e.mag, n.mag)))

NativeBigInteger_returns(cls, active) == "Native"

(***************************************************************************)
(* State.                                                                  *)
(*   Implementation, loaded, objs, store, last: the registry               *)
(*   and the value objects (specification Spec, below).                    *)
(*   call: one call of a method of the fallback backend on values built    *)
(*   from the numbers a, b and c (specification SpecCall).                 *)
(***************************************************************************)
VARIABLES Implementation, loaded, objs, store, last, call, suite

vars == <<Implementation, loaded, objs, store, last, call, suite>>
heapVars == <<Implementation, loaded, objs, store, last, suite>>

\* suite: the test runner's state (empty outside SpecSuite).  layout is the
\* version of the test file, tests the number of tests of bigIntegerTests,
\* todo the statements of the file still to execute, existing the constant
\* existingImplementation, queue the bodies should() has enqueued, ran the
\* bodies executed so far, each with the registry at that moment.
NoSuite == [layout |-> "none", tests |-> 0, todo |-> <<>>, existing |-> "none",
            queue |-> <<>>, ran |-> <<>>]

NoCall == [op |-> "none", a |-> 0, b |-> 0, c |-> 0, endian |-> "be",
           res |-> Ok(NoBN)]

\* last: the last call made under Spec.  recv, arg and ret are the numbers
\* of the receiver, of the first argument and of the returned object (0
\* when there is none), active is the registry when the call began, was is
\* the receiver's value when the call began, impl and replace are the
\* arguments of setImplementation, hasBigInt is whether the host defined
\* BigInt when the module was loaded, input is the kind of argument given to
\* BigInteger.new, argWas is the number the first argument held when the
\* call began, arg2 and arg2Was are the second argument (the modulus of
\* modExp) and the number it held, out is <<v>> for the boolean, number,
\* string or byte array v a comparison, predicate or conversion returned.
\* Once the caller has returned from the call, last is NoLast again.
NoLast == [op |-> "none", recv |-> 0, arg |-> 0, ret |-> 0, err |-> "",
           active |-> "none", impl |-> "none", replace |-> FALSE, was |-> 0,
           hasBigInt |-> FALSE, input |-> "none",
           argWas |-> NoBN, arg2 |-> 0, arg2Was |-> NoBN, out |-> <<>>]

(***************************************************************************)
(* SpecCall: a value a, a value b and a value c are built with             *)
(* new BNBigInteger(number), then one method is called once.               *)
(***************************************************************************)
Returned(op, res) == [call EXCEPT !.op = op, !.res = res]

\* a.modExp(b, c)
ApplyModExp ==
  /\ call.op = "none"
  /\ call' = Returned("modExp", modExp(BN_new(call.a), BN_new(call.b), BN_new(call.c)))
  /\ UNCHANGED heapVars

\* a.modInv(c)
ApplyModInv ==
  /\ call.op = "none"
  /\ call' = Returned("modInv", modInv(BN_new(call.a), BN_new(call.c)))
  /\ UNCHANGED heapVars

\* a.gcd(b)
ApplyGcd ==
  /\ call.op = "none"
  /\ call' = Returned("gcd", Ok(gcd(BN_new(call.a), BN_new(call.b))))
  /\ UNCHANGED heapVars

\* a.mod(b)
ApplyMod ==
  /\ call.op = "none"
  /\ call' = Returned("mod", mod(BN_new(call.a), BN_new(call.b)))
  /\ UNCHANGED heapVars

\* a.imod(b); res.val is the value a holds afterwards
ApplyImod ==
  /\ call.op = "none"
  /\ call' = Returned("imod", imod(BN_new(call.a), BN_new(call.b)))
  /\ UNCHANGED heapVars

\* a.isub(a): the receiver is its own argument; res.val is the value a holds
\* afterwards
ApplyIsubSelf ==
  /\ call.op = "none"
  /\ call' = Returned("isub", BNBigInteger_inPlaceSelf("isub", BN_new(call.a)))
  /\ UNCHANGED heapVars

InitCall ==
  /\ call \in [op : {"none"}, a : (0 - MaxBase)..MaxBase, b : (0 - MaxExp)..MaxExp,
               c : 0..MaxMod, endian : {"be"}, res : {Ok(NoBN)}]
  /\ Implementation = "none"
  /\ loaded = FALSE
  /\ objs = <<>>
  /\ store = <<>>
  /\ last = NoLast
  /\ suite = NoSuite

\* The receiver of toUint8Array, bitLength and byteLength:
\* new BNBigInteger(a * 2^|b|), a number of up to three bytes.
Wide == BN_new(call.a * Pow2(Abs(call.b)))

\* The receiver of toNumber: new BNBigInteger(v) for the integer v of
\* magnitude |a| * 2^(3|b|) + c and of the sign of a, a number of up to 58
\* bits, which the constructor of bn.js parses into words.
HugeShift == 3 * Abs(call.b)

\* The words of m * 2^k + c for m > 0 and c below 2^k or k below 26.
RECURSIVE WordsOf(_, _, _)
WordsOf(m, k, c) ==
  IF k >= bnWordSize THEN <<c>> \o WordsOf(m, k - bnWordSize, 0)
  ELSE BN_words(m * Pow2(k) + c)

Huge ==
  IF call.a = 0 THEN BN_wide(0, BN_words(call.c))
  ELSE BN_wide(IF call.a < 0 THEN 1 ELSE 0, WordsOf(Abs(call.a), HugeShift, call.c))

\* v.toNumber()
ApplyToNumber ==
  /\ call.op = "none"
  /\ call' = Returned("toNumber", toNumber(Huge))
  /\ UNCHANGED heapVars

\* v.toUint8Array(endian, c), or v.toUint8Array(endian) when c is 0
ApplyToUint8Array(endian) ==
  /\ call.op = "none"
  /\ call' = [Returned("toUint8Array", toUint8Array(Wide, endian, call.c))
                EXCEPT !.endian = endian]
  /\ UNCHANGED heapVars

NextCall ==
  \/ ApplyModExp \/ ApplyModInv \/ ApplyGcd \/ ApplyMod \/ ApplyImod
  \/ ApplyIsubSelf
  \/ ApplyToNumber
  \/ \E endian \in {"be", "le"} : ApplyToUint8Array(endian)

SpecCall == InitCall /\ [][NextCall]_vars

(***************************************************************************)
(* abstract class BigInteger: the registry and the factory.                *)
(***************************************************************************)
Backends == {"Native", "BN"}
AlreadySet == "Implementation already set"
NotAConstructor == "TypeError: not a constructor"

\* (mutant) setImplementation without the test of replace.
setImplementation_unguarded(current, impl, replace) == [err |-> "", impl |-> impl]

\* static setImplementation(Implementation, replace = false): the error
\* thrown and the registry afterwards.
setImplementation(current, impl, replace) ==
  IF current # "none" /\ ~replace THEN [err |-> AlreadySet, impl |-> current]
  ELSE [err |-> "", impl |-> impl]

\* (mutant) a factory that always constructs the fallback class.
BigInteger_new_fallbackOnly(current, n) ==
  IF current = "none" THEN [cls |-> "none", res |-> Throw(NotAConstructor)]
  ELSE [cls |-> "BN", res |-> BNBigInteger_constructor(n)]

\* static new(n): new BigInteger.Implementation(n); the class of the object
\* and what its constructor does.
BigInteger_new(current, n) ==
  IF current = "none" THEN [cls |-> "none", res |-> Throw(NotAConstructor)]
  ELSE [cls |-> current,
        res |-> IF current = "BN" THEN BNBigInteger_constructor(n)
                ELSE NativeBigInteger_constructor(n)]

\* (mutant) a module body that installs the fallback whatever the host.
DefaultImplementation_fallbackOnly(hasBigInt) == "BN"

\* detectBigInt() ? NativeBigInteger : FallbackBigInteger, where hasBigInt
\* is whether the host defines BigInt.
DefaultImplementation(hasBigInt) == IF hasBigInt THEN "Native" ELSE "BN"

(***************************************************************************)
(* Spec: the module is loaded, then backends are swapped, values are made  *)
(* by the factory and methods are called on them, in any order.            *)
(*   objs[i]  = [cls |-> the class of value object i,                      *)
(*               ref |-> the cell of store its field `value` refers to]    *)
(*   store[c] = the number in cell c                                       *)
(***************************************************************************)
Objects == 1..Len(objs)
\* The value objects that hold an integer: the methods of a value built from
\* null are not modelled.
Values == {i \in Objects : store[objs[i].ref] # BN_empty}
Value(i) == store[objs[i].ref]
ValueOrNone(i) == IF i = 0 THEN NoBN ELSE Value(i)

Methods(cls) == IF cls = "BN" THEN BNBigInteger_methods ELSE NativeBigInteger_methods

\* The binary methods: the arithmetic ones and their in-place forms, then
\* the bitwise ones.
ArithmeticOps == {"add", "sub", "mul", "div", "mod", "leftShift", "rightShift"}
PureOps == ArithmeticOps \cup {"xor", "bitwiseAnd"}
InPlaceOps == {"iadd", "isub", "imul", "idiv", "imod", "ileftShift", "irightShift",
               "ixor", "ibitwiseAnd", "ibitwiseOr"}

ComparisonOps == {"equal", "lt", "lte", "gt", "gte"}
PredicateOps == {"isZero", "isOne", "isNegative", "isEven"}
ConversionOps == {"toString", "toNumber", "getBit", "bitLength", "byteLength",
                  "toUint8Array"}

Called(op, r, x, ret, err) ==
  [op |-> op, recv |-> r, arg |-> x, ret |-> ret, err |-> err,
   active |-> Implementation, impl |-> "none", replace |-> FALSE,
   was |-> IF r = 0 THEN 0 ELSE BN_int(Value(r)), hasBigInt |-> FALSE,
   input |-> "none", argWas |-> ValueOrNone(x), arg2 |-> 0, arg2Was |-> NoBN,
   out |-> <<>>]

\* The caller is between two calls: it has returned from the last one.
Idle == last.op = "none"

\* The integers a value object holds under Spec.
InRange(v) == BN_int(v) >= MinVal /\ BN_int(v) <= MaxVal

\* The store once the method op of r has worked on its argument x, and on
\* its arguments x and n.
ArgTouched(op, r, x) ==
  IF x = 0 \/ objs[r].cls # "BN" THEN store
  ELSE [store EXCEPT ![objs[x].ref] =
          BNBigInteger_argAfter(IF op \in PureOps THEN InPlaceOf(op) ELSE op,
                                Value(r), Value(x))]

ArgsTouched(op, r, x, n) ==
  IF n = 0 \/ objs[r].cls # "BN" THEN ArgTouched(op, r, x)
  ELSE [ArgTouched(op, r, x) EXCEPT ![objs[n].ref] =
          BNBigInteger_argAfter(op, Value(r), Value(n))]

\* The object a method returns is an instance of the class its code names.
ReturnedClass(r) ==
  IF objs[r].cls = "BN" THEN BNBigInteger_returns(objs[r].cls, Implementation)
  ELSE NativeBigInteger_returns(objs[r].cls, Implementation)

\* The number object the instance returned by r.op(...) holds; the pure
\* binary methods work on this.clone().
Holds(op, r) ==
  IF objs[r].cls # "BN" THEN "new"
  ELSE IF op \in PureOps \cup {"inc", "dec"} THEN BNBigInteger_holds("clone")
  ELSE BNBigInteger_holds(op)

\* A method of receiver r that returns a new object holding res.val in a
\* cell of its own, or throws res.err.  The new object is there beside the
\* objects the caller keeps, however many these are.
ReturnsNew3(op, r, x, n, res) ==
  /\ Idle
  /\ res.err = "" => InRange(res.val)
  /\ IF res.err # "" THEN UNCHANGED <<objs, store>>
     ELSE IF Holds(op, r) = "this"
     THEN /\ objs' = Append(objs, [cls |-> ReturnedClass(r), ref |-> objs[r].ref])
          /\ store' = [ArgsTouched(op, r, x, n) EXCEPT ![objs[r].ref] = res.val]
     ELSE /\ objs' = Append(objs, [cls |-> ReturnedClass(r), ref |-> Len(store) + 1])
          /\ store' = Append(ArgsTouched(op, r, x, n), res.val)
  /\ last' = [Called(op, r, x, IF res.err = "" THEN Len(objs) + 1 ELSE 0, res.err)
                EXCEPT !.arg2 = n, !.arg2Was = ValueOrNone(n)]
  /\ UNCHANGED <<Implementation, loaded, call, suite>>

\* The same for a method of one argument or none.
ReturnsNew(op, r, x, res) == ReturnsNew3(op, r, x, 0, res)

\* Whether another object refers to the cell of r, and a cell no other
\* object refers to.
Shared(r) == \E k \in Objects \ {r} : objs[k].ref = objs[r].ref
FreeCell(r) ==
  CHOOSE c \in 1..Len(store) : \A k \in Objects \ {r} : objs[k].ref # c

\* A method that changes the receiver r and returns it, or throws.  mutate
\* tells whether the number object itself is changed (this.value.iadd(x))
\* or a new number is assigned to the field (this.value = ...).
ReturnsThis(op, r, x, res, mutate) ==
  /\ Idle
  /\ res.err = "" => InRange(res.val)
  /\ IF res.err # "" THEN UNCHANGED <<objs, store>>
     ELSE IF mutate \/ ~Shared(r)
     THEN /\ store' = [ArgTouched(op, r, x) EXCEPT ![objs[r].ref] = res.val]
          /\ UNCHANGED objs
     ELSE /\ store' = [ArgTouched(op, r, x) EXCEPT ![FreeCell(r)] = res.val]
          /\ objs' = [objs EXCEPT ![r].ref = FreeCell(r)]
  /\ last' = Called(op, r, x, IF res.err = "" THEN r ELSE 0, res.err)
  /\ UNCHANGED <<Implementation, loaded, call, suite>>

\* A method of a fallback value r that returns res.val, which is no value
\* object, or throws res.err.
ReturnsPlain(op, r, x, res) ==
  /\ Idle
  /\ objs[r].cls = "BN"
  /\ store' = IF res.err # "" THEN store
              ELSE [ArgTouched(op, r, x) EXCEPT
                      ![objs[r].ref] = BNBigInteger_thisAfter(op, Value(r))]
  /\ last' = [Called(op, r, x, 0, res.err) EXCEPT
                !.out = IF res.err = "" THEN <<res.val>> ELSE <<>>]
  /\ UNCHANGED <<Implementation, loaded, objs, call, suite>>

\* Arguments are values of the receiver's backend.
SameBackend(r, x) == objs[r].cls = objs[x].cls

\* index.ts: BigInteger.setImplementation(detectBigInt() ? Native : Fallback)
Load(hasBigInt) ==
  /\ ~loaded /\ Idle
  /\ LET r == setImplementation(Implementation, DefaultImplementation(hasBigInt), FALSE)
     IN /\ Implementation' = r.impl
        /\ last' = [Called("load", 0, 0, 0, r.err) EXCEPT
                      !.impl = DefaultImplementation(hasBigInt),
                      !.hasBigInt = hasBigInt]
  /\ loaded' = TRUE
  /\ UNCHANGED <<objs, store, call, suite>>

\* BigInteger.setImplementation(impl, replace)
SetImplementation(impl, replace) ==
  /\ loaded /\ Idle
  /\ LET r == setImplementation(Implementation, impl, replace)
     IN /\ Implementation' = r.impl
        /\ last' = [Called("setImplementation", 0, 0, 0, r.err) EXCEPT
                      !.impl = impl, !.replace = replace]
  /\ UNCHANGED <<loaded, objs, store, call, suite>>

\* BigInteger.new(n), called between two calls or as the statement that
\* follows a setImplementation.
New(n) ==
  /\ loaded /\ (Idle \/ last.op = "setImplementation")
  /\ LET r == BigInteger_new(Implementation, n)
     IN /\ r.res.err = "" => Len(objs) < MaxObjs
        /\ IF r.res.err = ""
           THEN /\ objs' = Append(objs, [cls |-> r.cls, ref |-> Len(store) + 1])
                /\ store' = Append(store, r.res.val)
           ELSE UNCHANGED <<objs, store>>
        /\ last' = [Called("new", 0, 0,
                           IF r.res.err = "" THEN Len(objs) + 1 ELSE 0, r.res.err)
                      EXCEPT !.input = n.t]
  /\ UNCHANGED <<Implementation, loaded, call, suite>>

\* r.clone()
CallClone(r) ==
  ReturnsNew("clone", r, 0, Ok(clone(Value(r))))

\* r.abs()
CallAbs(r) ==
  ReturnsNew("abs", r, 0, Ok(abs(Value(r))))

\* r.op(x) for a pure binary method
CallPure(op, r, x) ==
  /\ SameBackend(r, x)
  /\ ReturnsNew(op, r, x,
       IF op \notin Methods(objs[r].cls) THEN Throw(NotAFunction)
       ELSE IF objs[r].cls = "BN" THEN BNBigInteger_pure(op, Value(r), Value(x))
       ELSE NativeBigInteger_pure(op, Value(r), Value(x)))

\* r.iop(x) for an in-place binary method; x may be r itself
CallInPlace(op, r, x) ==
  /\ SameBackend(r, x)
  /\ ReturnsThis(op, r, x,
       IF op \notin Methods(objs[r].cls) THEN Throw(NotAFunction)
       ELSE IF objs[r].cls = "BN"
       THEN IF x = r THEN BNBigInteger_inPlaceSelf(op, Value(r))
            ELSE BNBigInteger_inPlace(op, Value(r), Value(x))
       ELSE NativeBigInteger_inPlace(op, Value(r), Value(x)),
       objs[r].cls = "BN" /\ op # "imod")

\* r.iinc() and r.idec()
CallStep(op, r) ==
  ReturnsThis(op, r, 0,
    IF objs[r].cls = "BN" THEN Ok(IF op = "iinc" THEN iinc(Value(r)) ELSE idec(Value(r)))
    ELSE Ok(BN_new(BN_int(Value(r)) + (IF op = "iinc" THEN 1 ELSE 0 - 1))),
    objs[r].cls = "BN")

\* r.inc() and r.dec()
CallStepPure(op, r) ==
  ReturnsNew(op, r, 0,
    IF objs[r].cls = "BN" THEN Ok(IF op = "inc" THEN inc(Value(r)) ELSE dec(Value(r)))
    ELSE Ok(BN_new(BN_int(Value(r)) + (IF op = "inc" THEN 1 ELSE 0 - 1))))

\* r.gcd(x)
CallGcd(r, x) ==
  /\ SameBackend(r, x)
  /\ ReturnsNew("gcd", r, x,
       IF objs[r].cls = "BN" THEN Ok(gcd(Value(r), Value(x)))
       ELSE Ok(NativeBigInteger_gcd(Value(r), Value(x))))

\* r.modInv(n)
CallModInv(r, n) ==
  /\ SameBackend(r, n)
  /\ ReturnsNew("modInv", r, n,
       IF objs[r].cls = "BN" THEN modInv(Value(r), Value(n))
       ELSE NativeBigInteger_modInv(Value(r), Value(n)))

\* r.modExp(e, n)
CallModExp(r, e, n) ==
  /\ SameBackend(r, e) /\ SameBackend(r, n)
  /\ ReturnsNew3("modExp", r, e, n,
       IF objs[r].cls = "BN" THEN modExp(Value(r), Value(e), Value(n))
       ELSE NativeBigInteger_modExp(Value(r), Value(e), Value(n)))

\* r.equal(x), r.lt(x), r.lte(x), r.gt(x), r.gte(x)
CallComparison(op, r, x) ==
  /\ SameBackend(r, x)
  /\ ReturnsPlain(op, r, x,
       Ok(CASE op = "equal" -> equal(Value(r), Value(x))
            [] op = "lt" -> lt(Value(r), Value(x))
            [] op = "lte" -> lte(Value(r), Value(x))
            [] op = "gt" -> gt(Value(r), Value(x))
            [] op = "gte" -> gte(Value(r), Value(x))))

\* r.isZero(), r.isOne(), r.isNegative(), r.isEven()
CallPredicate(op, r) ==
  ReturnsPlain(op, r, 0,
    Ok(CASE op = "isZero" -> isZero(Value(r))
         [] op = "isOne" -> isOne(Value(r))
         [] op = "isNegative" -> isNegative(Value(r))
         [] op = "isEven" -> isEven(Value(r))))

\* r.toString(), r.toNumber(), r.bitLength(), r.byteLength(),
\* r.toUint8Array()
CallConversion(op, r) ==
  ReturnsPlain(op, r, 0,
    CASE op = "toString" -> Ok(toString(Value(r)))
      [] op = "toNumber" -> toNumber(BN_widen(Value(r)))
      [] op = "bitLength" -> Ok(bitLength(Value(r)))
      [] op = "byteLength" -> Ok(byteLength(Value(r)))
      [] op = "toUint8Array" -> toUint8Array(Value(r), "be", 0))

\* r.getBit(i)
CallGetBit(r, i) ==
  ReturnsPlain("getBit", r, 0, getBit(Value(r), i))

\* The statement after a call: the caller has what the call returned.  It
\* keeps MaxObjs value objects; a result that would be one more is kept by
\* no variable, and is garbage.
Return ==
  /\ ~Idle
  /\ last' = NoLast
  /\ IF Len(objs) > MaxObjs
     THEN /\ objs' = SubSeq(objs, 1, MaxObjs)
          /\ store' = IF Shared(Len(objs)) THEN store
                      ELSE SubSeq(store, 1, Len(store) - 1)
     ELSE UNCHANGED <<objs, store>>
  /\ UNCHANGED <<Implementation, loaded, call, suite>>

\* The bit numbers given to getBit.
BitNumbers == MinVal..MaxVal

Inputs == {Num(v) : v \in MinVal..MaxVal} \cup {Undefined, Null}

Init ==
  /\ Implementation = "none"
  /\ loaded = FALSE
  /\ objs = <<>>
  /\ store = <<>>
  /\ last = NoLast
  /\ suite = NoSuite
  /\ call = NoCall

Next ==
  \/ \E hasBigInt \in BOOLEAN : Load(hasBigInt)
  \/ \E impl \in Backends, replace \in BOOLEAN : SetImplementation(impl, replace)
  \/ \E n \in Inputs : New(n)
  \/ \E r \in Values : CallClone(r)
  \/ \E r \in Values : CallAbs(r)
  \/ \E op \in PureOps, r \in Values, x \in Values : CallPure(op, r, x)
  \/ \E op \in InPlaceOps, r \in Values, x \in Values : CallInPlace(op, r, x)
  \/ \E op \in {"iinc", "idec"}, r \in Values : CallStep(op, r)
  \/ \E op \in {"inc", "dec"}, r \in Values : CallStepPure(op, r)
  \/ \E r \in Values, x \in Values : CallGcd(r, x)
  \/ \E r \in Values, n \in Values : CallModInv(r, n)
  \/ \E r \in Values, e \in Values, n \in Values : CallModExp(r, e, n)
  \/ \E op \in ComparisonOps, r \in Values, x \in Values : CallComparison(op, r, x)
  \/ \E op \in PredicateOps, r \in Values : CallPredicate(op, r)
  \/ \E op \in ConversionOps \ {"getBit"}, r \in Values : CallConversion(op, r)
  \/ \E r \in Values, i \in BitNumbers : CallGetBit(r, i)
  \/ Return

Spec == Init /\ [][Next]_vars

(***************************************************************************)
(* The BigInteger test suite under micro-should.  describe(name, fn) calls *)
(* fn at once; should(name, fn) appends fn to the runner's queue;          *)
(* should.run(), the last statement of the test index, calls the queued    *)
(* bodies in the order of their registration.                              *)
(***************************************************************************)

\* A body: k is "set" (setImplementation(impl, true)), "test" (one test of
\* bigIntegerTests) or "restore" (setImplementation(existingImplementation,
\* true)); group is the describe block it was written in.
Body(k, group, impl) == [k |-> k, group |-> group, impl |-> impl]

\* A statement of the test file: "save" (const existingImplementation),
\* "now" (a body executed where it stands) or "should" (a body enqueued).
Stmt(k, body) == [k |-> k, body |-> body]

RECURSIVE Repeat(_, _)
Repeat(x, n) == IF n = 0 THEN <<>> ELSE <<x>> \o Repeat(x, n - 1)

\* bigIntegerTests(implementation) of the test file that calls
\* setImplementation in the function's body
bigIntegerTests_part_001(implementation, tests) ==
  <<Stmt("now", Body("set", implementation, implementation))>>
    \o Repeat(Stmt("should", Body("test", implementation, "none")), tests)

\* bigIntegerTests(implementation) of the test file that calls
\* setImplementation in its first test
bigIntegerTests_part_000(implementation, tests) ==
  <<Stmt("should", Body("set", implementation, implementation))>>
    \o Repeat(Stmt("should", Body("test", implementation, "none")), tests)

\* describe('BigInteger', ...) of the two test files
describe_part_001(tests) ==
  <<Stmt("save", Body("none", "none", "none"))>>
    \o bigIntegerTests_part_001("Native", tests)
    \o bigIntegerTests_part_001("BN", tests)
    \o <<Stmt("now", Body("restore", "none", "none"))>>

describe_part_000(tests) ==
  <<Stmt("save", Body("none", "none", "none"))>>
    \o bigIntegerTests_part_000("Native", tests)
    \o bigIntegerTests_part_000("BN", tests)
    \o <<Stmt("should", Body("restore", "none", "none"))>>

describe(layout, tests) ==
  IF layout = "part_001" THEN describe_part_001(tests) ELSE describe_part_000(tests)

\* The registry after a body has executed.
BodyEffect(body, current, existing) ==
  CASE body.k = "set" -> setImplementation(current, body.impl, TRUE).impl
    [] body.k = "restore" -> setImplementation(current, existing, TRUE).impl
    [] OTHER -> current

\* The entry of suite.ran for a body: active is the registry the body met.
Ran(body, current) == [k |-> body.k, group |-> body.group, active |-> current]

\* const existingImplementation = BigInteger.Implementation;
SuiteSave ==
  /\ loaded
  /\ suite.todo # <<>> /\ Head(suite.todo).k = "save"
  /\ suite' = [suite EXCEPT !.todo = Tail(@), !.existing = Implementation]
  /\ UNCHANGED <<Implementation, loaded, objs, store, last, call>>

\* a statement of the file that is not wrapped in should(): it executes
\* while the file is loading
SuiteNow ==
  /\ loaded
  /\ suite.todo # <<>> /\ Head(suite.todo).k = "now"
  /\ LET body == Head(suite.todo).body
     IN /\ Implementation' = BodyEffect(body, Implementation, suite.existing)
        /\ suite' = [suite EXCEPT !.todo = Tail(@),
                                  !.ran = Append(@, Ran(body, Implementation))]
  /\ UNCHANGED <<loaded, objs, store, last, call>>

\* should(name, fn): fn is enqueued
SuiteShould ==
  /\ loaded
  /\ suite.todo # <<>> /\ Head(suite.todo).k = "should"
  /\ suite' = [suite EXCEPT !.todo = Tail(@),
                            !.queue = Append(@, Head(suite.todo).body)]
  /\ UNCHANGED <<Implementation, loaded, objs, store, last, call>>

\* should.run(): the next queued body executes, once every import of the
\* test index has been evaluated
SuiteRun ==
  /\ loaded
  /\ suite.todo = <<>> /\ suite.queue # <<>>
  /\ LET body == Head(suite.queue)
     IN /\ Implementation' = BodyEffect(body, Implementation, suite.existing)
        /\ suite' = [suite EXCEPT !.queue = Tail(@),
                                  !.ran = Append(@, Ran(body, Implementation))]
  /\ UNCHANGED <<loaded, objs, store, last, call>>

InitSuite ==
  /\ Implementation = "none"
  /\ loaded = FALSE
  /\ objs = <<>>
  /\ store = <<>>
  /\ last = NoLast
  /\ call = NoCall
  /\ \E layout \in {"part_001", "part_000"}, tests \in 1..MaxTests :
       suite = [NoSuite EXCEPT !.layout = layout, !.tests = tests,
                               !.todo = describe(layout, tests)]

NextSuite ==
  \/ \E hasBigInt \in BOOLEAN : Load(hasBigInt)
  \/ SuiteSave
  \/ SuiteNow
  \/ SuiteShould
  \/ SuiteRun

SpecSuite == InitSuite /\ [][NextSuite]_vars

\* The result of the call as an integer.
ResInt == BN_int(call.res.val)

(***************************************************************************)
(* Properties.                                                             *)
(***************************************************************************)
\* C1: for every base a >= 0, exponent b > 0 and modulus c > 0,
\* a.modExp(b, c) returns a^b mod c, the value square-and-multiply gives.
ModExpEveryPositiveModulus ==
  (call.op = "modExp" /\ call.a >= 0 /\ call.b > 0 /\ call.c > 0)
    => call.res = Ok(BN_new(SquareAndMultiply(call.a, call.b, call.c)))

\* C2: for every modulus c > 1 and every a, negative or not, coprime to c,
\* a.modInv(c) returns x with 0 <= x < c and a*x mod c = 1, and a negative a
\* gives what its normalisation into [0, c) gives.
ModInvIsInverse ==
  (call.op = "modInv" /\ call.c > 1 /\ MathGcd(Abs(call.a), call.c) = 1)
    => /\ call.res.err = ""
       /\ call.res.val.negative = 0
       /\ ResInt >= 0 /\ ResInt < call.c
       /\ (call.a * ResInt) % call.c = 1
       /\ call.res = modInv(BN_new(call.a % call.c), BN_new(call.c))

ModInvNegativeInverted ==
  /\ call.op = "modInv" /\ call.a < 0 /\ call.c > 2
  /\ call.res.err = "" /\ ResInt > 1

\* C3: for every a and every modulus c > 0, a.modInv(c) throws
\* 'Inverse does not exist' exactly when gcd(|a|, c) # 1, and returns a value
\* otherwise.
ModInvThrowsIffNotCoprime ==
  (call.op = "modInv" /\ call.c > 0)
    => /\ (call.res.err = InverseDoesNotExist) <=> (MathGcd(Abs(call.a), call.c) # 1)
       /\ (call.res.err = "") <=> (MathGcd(Abs(call.a), call.c) = 1)

ModInvOfMultipleThrown ==
  /\ call.op = "modInv" /\ call.c > 1 /\ call.a # 0 /\ call.a % call.c = 0
  /\ call.res.err = InverseDoesNotExist

\* C4: for all signed a and b, zero included, a.gcd(b) is non-negative,
\* divides a and b, and is the greatest common divisor of |a| and |b|.
GcdIsGreatestCommonDivisor ==
  (call.op = "gcd")
    => /\ call.res.err = ""
       /\ call.res.val.negative = 0
       /\ Divides(ResInt, call.a) /\ Divides(ResInt, call.b)
       /\ ResInt = MathGcd(Abs(call.a), Abs(call.b))

GcdOfNegativesTaken ==
  /\ call.op = "gcd" /\ call.a < 0 /\ call.b < 0 /\ ResInt > 1 /\ ResInt % 2 = 0

\* C5: for every receiver a and every modulus b > 0, a.mod(b) and a.imod(b)
\* give r with 0 <= r < b and a - r divisible by b.
ModIsEuclidean ==
  (call.op \in {"mod", "imod"} /\ call.b > 0)
    => /\ call.res.err = ""
       /\ call.res.val.negative = 0
       /\ ResInt >= 0 /\ ResInt < call.b
       /\ Divides(call.b, call.a - ResInt)

ModOfNegativeTaken ==
  /\ call.op = "imod" /\ call.a < 0 /\ call.b > 0 /\ ResInt > 0


\* Above a modulus of one modExp returns the square-and-multiply value.
ModExpAboveOne ==
  (call.op = "modExp" /\ call.a >= 0 /\ call.b > 0 /\ call.c > 1)
    => call.res = Ok(BN_new(SquareAndMultiply(call.a, call.b, call.c)))

(***************************************************************************)
(* Properties of Spec.                                                     *)
(***************************************************************************)
AllocatingOps ==
  PureOps \cup {"clone", "inc", "dec", "abs", "modExp", "modInv", "gcd"}

ClassOf(i) == objs[i].cls

\* What r.iop(x) makes of a clone of the receiver, by the receiver's class.
InPlaceOnClone(op, cls, was, x) ==
  IF InPlaceOf(op) \notin Methods(cls) THEN Throw(NotAFunction)
  ELSE IF cls = "BN" THEN BNBigInteger_inPlace(InPlaceOf(op), clone(BN_new(was)), x)
  ELSE NativeBigInteger_inPlace(InPlaceOf(op), BN_new(was), x)

\* C6: for each pair op/iop of {add, sub, mul, div, mod, leftShift,
\* rightShift}, a.op(b) is a method of a, gives what a.clone().iop(b) gives,
\* and leaves a with the value it had.
PureEqualsInPlaceOnClone ==
  (last.op \in ArithmeticOps)
    => LET expected == InPlaceOnClone(last.op, ClassOf(last.recv), last.was,
                                      Value(last.arg))
       IN /\ last.err # NotAFunction
          /\ last.err = expected.err
          /\ last.err = "" => BN_eq(Value(last.ret), expected.val)
          /\ BN_int(Value(last.recv)) = last.was

\* C7: setImplementation(impl) with replace false or omitted, called while a
\* backend is installed, throws 'Implementation already set' and leaves the
\* registry as it was; with no backend installed, or with replace true, impl
\* becomes the active backend.
SetImplementationGuarded ==
  (last.op \in {"setImplementation", "load"})
    => IF last.active # "none" /\ ~last.replace
       THEN last.err = AlreadySet /\ Implementation = last.active
       ELSE last.err = "" /\ Implementation = last.impl

SetImplementationRefused ==
  /\ last.op = "setImplementation" /\ last.err = AlreadySet
  /\ last.impl # Implementation

\* C8: BigInteger.new(v) returns an instance of the backend active when it is
\* called; after setImplementation(impl, true) the next BigInteger.new
\* returns an instance of impl.
NewUsesActiveBackend ==
  /\ [](last.op = "new" /\ last.ret # 0
          => ClassOf(last.ret) = last.active /\ last.active = Implementation)
  /\ [][(last.op = "setImplementation" /\ last.replace /\ last'.op = "new"
           /\ last'.ret # 0)
          => objs'[last'.ret].cls = last.impl]_vars

NewAfterSwap ==
  /\ last.op = "new" /\ last.ret > 1
  /\ ClassOf(1) # ClassOf(last.ret)

\* C9 as stated: every instance the factory or a method returns is an
\* instance of the backend active when it was created.
EveryInstanceOfActiveBackend ==
  (last.op \in AllocatingOps \cup {"new"} /\ last.ret # 0)
    => ClassOf(last.ret) = last.active

\* C9 amended: every instance the factory returns is an instance of the
\* backend active when it was created; every instance a method of a fallback
\* value (clone, pure arithmetic, abs, modExp, modInv, gcd) returns is a
\* fallback instance, whichever backend is active.
InstanceOfFactoryOrReceiverClass ==
  /\ (last.op = "new" /\ last.ret # 0) => ClassOf(last.ret) = last.active
  /\ (last.op \in AllocatingOps /\ last.ret # 0 /\ ClassOf(last.recv) = "BN")
       => ClassOf(last.ret) = "BN"

MethodResultOfInactiveBackend ==
  /\ last.op \in AllocatingOps /\ last.ret # 0
  /\ ClassOf(last.recv) = "BN" /\ Implementation = "Native"
  /\ ClassOf(last.ret) = "BN"

\* C10: loading the module installs one backend, the native one if the host
\* has BigInt and the fallback otherwise; afterwards the registry always
\* holds one backend, it changes only in a setImplementation call with
\* replace true, and BigInteger.new and the methods of values leave it alone.
RegistryChangesOnlyByReplace ==
  /\ [](loaded => Implementation \in Backends)
  /\ [][(~loaded /\ loaded')
          => Implementation' = (IF last'.hasBigInt THEN "Native" ELSE "BN")]_vars
  /\ [][(loaded /\ Implementation' # Implementation)
          => (last'.op = "setImplementation" /\ last'.replace)]_vars
  /\ [][(last'.op \in AllocatingOps \cup InPlaceOps \cup {"new"})
          => Implementation' = Implementation]_vars

RegistryReplacedWithValuesAlive ==
  /\ last.op = "setImplementation" /\ last.replace
  /\ last.active # Implementation
  /\ Len(objs) > 0


\* C11: BigInteger.new called with no argument (undefined) throws
\* 'Invalid BigInteger input' and returns no value object, whichever backend
\* is active.
NewOfUndefinedThrows ==
  (last.op = "new" /\ last.input = "undefined")
    => (last.err = InvalidInput /\ last.ret = 0)

NewOfUndefinedThrownUnderFallback ==
  /\ last.op = "new" /\ last.input = "undefined"
  /\ last.active = "BN" /\ last.err = InvalidInput
  /\ Len(objs) > 0

\* C12: BigInteger.new(null) throws an error as BigInteger.new(undefined)
\* does, and returns no value object.
NewOfNullThrows ==
  (last.op = "new" /\ last.input = "null")
    => (last.err # "" /\ last.ret = 0)


\* What r.op(x) returns for a receiver of class cls holding a.
PureOf(op, cls, a, x) ==
  IF op \notin Methods(cls) THEN Throw(NotAFunction)
  ELSE IF cls = "BN" THEN BNBigInteger_pure(op, a, x)
  ELSE NativeBigInteger_pure(op, a, x)

\* C13: for every value a and every shift amount k, negative ones included,
\* a.leftShift(k) returns what a.rightShift(-k) returns and a.rightShift(k)
\* what a.leftShift(-k) returns.
ShiftByNegativeReverses ==
  (last.op \in {"leftShift", "rightShift"})
    => LET other == IF last.op = "leftShift" THEN "rightShift" ELSE "leftShift"
           mirrored == PureOf(other, ClassOf(last.recv), BN_new(last.was),
                              BN_neg(Value(last.arg)))
       IN /\ last.err = ""
          /\ mirrored.err = ""
          /\ BN_eq(Value(last.ret), mirrored.val)

\* C14: the fallback backend defines every method the abstract class
\* declares: no call of a declared method on a fallback value fails because
\* the method is missing.
FallbackDefinesEveryAbstractMethod ==
  (last.recv # 0 /\ ClassOf(last.recv) = "BN" /\ last.op \in BigInteger_abstract)
    => last.err # NotAFunction

\* C15: on a fallback value a.mod(0), a.imod(0), a.div(0) and a.idiv(0) throw
\* and return nothing, and the receiver holds the value it had (div and
\* idiv throw for want of the method, whatever the divisor).
ByZeroThrowsAndKeepsReceiver ==
  (/\ last.op \in {"mod", "imod", "div", "idiv"}
   /\ ClassOf(last.recv) = "BN"
   /\ BN_isZero(last.argWas))
    => /\ last.err # ""
       /\ last.ret = 0
       /\ BN_int(Value(last.recv)) = last.was

ImodByZeroThrown ==
  /\ last.op = "imod" /\ ClassOf(last.recv) = "BN"
  /\ BN_isZero(last.argWas) /\ last.was # 0
  /\ last.err = AssertionFailed


(***************************************************************************)
(* Properties of the conversions (SpecCall).                               *)
(***************************************************************************)
\* The minimal big-endian bytes of a natural number (none for zero), and the
\* number a big-endian byte sequence stands for.
RECURSIVE BytesBE(_)
BytesBE(m) == IF m = 0 THEN <<>> ELSE Append(BytesBE(m \div 256), m % 256)

RECURSIVE FromBE(_)
FromBE(bytes) ==
  IF bytes = <<>> THEN 0
  ELSE FromBE(SubSeq(bytes, 1, Len(bytes) - 1)) * 256 + bytes[Len(bytes)]

Reverse(seq) == [j \in 1..Len(seq) |-> seq[Len(seq) + 1 - j]]
Zeros(n) == [j \in 1..n |-> 0]

\* C16: for a non-negative v and a length L above v.byteLength(),
\* v.toUint8Array('be', L) is L - byteLength zero bytes followed by the
\* minimal big-endian bytes of v, v.toUint8Array('le', L) is the minimal
\* little-endian bytes followed by the zero bytes; both have L bytes and
\* decode to v.
PaddedToLength ==
  (call.op = "toUint8Array" /\ call.a >= 0 /\ call.c > byteLength(Wide))
    => LET pad == Zeros(call.c - byteLength(Wide))
           be == BytesBE(BN_int(Wide))
           bytes == call.res.val
       IN /\ call.res.err = ""
          /\ Len(bytes) = call.c
          /\ call.endian = "be" => (bytes = pad \o be /\ FromBE(bytes) = BN_int(Wide))
          /\ call.endian = "le"
               => (bytes = Reverse(be) \o pad /\ FromBE(Reverse(bytes)) = BN_int(Wide))

PaddedLittleEndianTaken ==
  /\ call.op = "toUint8Array" /\ call.endian = "le"
  /\ byteLength(Wide) = 2 /\ call.c = byteLength(Wide) + 2
  /\ call.res.err = ""
  /\ call.res.val[1] # call.res.val[2]

\* C17: for a non-negative v, zero included, v.byteLength() is
\* v.toUint8Array().length, it is ceil(bitLength / 8), and it is 0 for zero.
ByteLengthIsArrayLength ==
  (call.op = "toUint8Array" /\ call.a >= 0 /\ call.c = 0)
    => /\ call.res.err = ""
       /\ byteLength(Wide) = Len(call.res.val)
       /\ byteLength(Wide) * 8 >= bitLength(Wide)
       /\ (byteLength(Wide) - 1) * 8 < bitLength(Wide) \/ bitLength(Wide) = 0
       /\ BN_isZero(Wide) => byteLength(Wide) = 0

\* The same for positive v only.
ByteLengthIsArrayLengthOfPositive ==
  (call.op = "toUint8Array" /\ call.a > 0 /\ call.c = 0)
    => /\ call.res.err = ""
       /\ byteLength(Wide) = Len(call.res.val)

\* The bits a number may have for toNumber to return it.
safeBits == 53

\* The bit length of the receiver of toNumber, and the receiver as a Number
\* when it has at most safeBits bits, from the integer it was built from.
HugeBits ==
  IF call.a = 0 THEN BitLen(call.c)
  ELSE IF HugeShift < bnWordSize
  THEN BitLen(Abs(call.a) * Pow2(HugeShift) + call.c)
  ELSE BitLen(Abs(call.a)) + HugeShift

HugeNumber ==
  IF call.a = 0 THEN Number(0, 0, call.c)
  ELSE IF HugeShift < bnWordSize
  THEN LET v == Abs(call.a) * Pow2(HugeShift) + call.c
       IN Number(IF call.a < 0 THEN 1 ELSE 0,
                 v \div Pow2(bnWordSize), v % Pow2(bnWordSize))
  ELSE Number(IF call.a < 0 THEN 1 ELSE 0,
              Abs(call.a) * Pow2(HugeShift - bnWordSize), call.c)

\* C18: v.toNumber() returns the integer v when |v| fits in 53 bits and
\* throws when it needs more; it never returns another number.
ToNumberExactOrThrows ==
  (call.op = "toNumber")
    => IF HugeBits <= safeBits
       THEN call.res = Ok(HugeNumber)
       ELSE call.res.err = UnsafeNumber

ToNumberAtTheLimit ==
  /\ call.op = "toNumber" /\ HugeBits = safeBits
  /\ call.a < 0 /\ call.c > 0 /\ call.res.err = ""

ToNumberThrown ==
  /\ call.op = "toNumber" /\ HugeBits = safeBits + 1
  /\ call.res.err = UnsafeNumber

(***************************************************************************)
(* Properties of the values held (Spec).                                   *)
(***************************************************************************)
FallbackValues == {i \in Values : ClassOf(i) = "BN"}

\* C19: after any sequence of operations a fallback value for which isZero()
\* is true has isNegative() false, toString() '0' and is equal() to a new
\* zero; equal() holds of two values exactly when they are the same integer.
ZeroIsCanonical ==
  /\ \A i \in FallbackValues :
       isZero(Value(i))
         => /\ ~isNegative(Value(i))
            /\ toString(Value(i)) = "0"
            /\ equal(Value(i), BN_new(0))
            /\ equal(BN_new(0), Value(i))
  /\ \A i \in FallbackValues, j \in FallbackValues :
       equal(Value(i), Value(j)) <=> (BN_int(Value(i)) = BN_int(Value(j)))

ZeroReachedFromNegative ==
  /\ last.op \in {"iinc", "iadd", "isub"} /\ last.was < 0
  /\ ClassOf(last.recv) = "BN" /\ last.err = ""
  /\ isZero(Value(last.recv))

\* C20: no two value objects hold the same number object, whichever of the
\* factory, clone, the pure methods, abs, modExp, modInv and gcd made them;
\* an in-place method of one value leaves the value of every other one as it
\* was.
NoSharedStorage ==
  /\ [](\A i \in Objects, j \in Objects : i # j => objs[i].ref # objs[j].ref)
  /\ [][(last'.op \in InPlaceOps \cup {"iinc", "idec"})
          => \A k \in Objects \ {last'.recv} :
               store'[objs'[k].ref] = store[objs[k].ref]]_vars

InPlaceBesideAnEqualValue ==
  /\ last.op \in InPlaceOps /\ last.err = ""
  /\ ClassOf(last.recv) = "BN"
  /\ BN_int(Value(last.recv)) # last.was
  /\ \E k \in FallbackValues \ {last.recv} : BN_int(Value(k)) = last.was


\* C21: a method of a fallback value leaves its arguments, when they are
\* other objects than the receiver, with the numbers they held: the argument
\* of the in-place and of the pure binary methods and of the comparisons, e
\* and n of modExp, n of modInv, b of gcd; clone, abs, modExp, modInv, gcd,
\* the pure binary methods, the comparisons, the predicates and the
\* conversions leave the receiver with the value it had.
OperandsUnchanged ==
  (last.recv # 0 /\ ClassOf(last.recv) = "BN")
    => /\ (last.arg # 0 /\ last.arg # last.recv) => Value(last.arg) = last.argWas
       /\ (last.arg2 # 0 /\ last.arg2 # last.recv) => Value(last.arg2) = last.arg2Was
       /\ last.op \in AllocatingOps \cup ComparisonOps \cup PredicateOps
                        \cup ConversionOps
            => BN_int(Value(last.recv)) = last.was

ModExpOfOtherObjectsReturned ==
  /\ last.op = "modExp" /\ ClassOf(last.recv) = "BN" /\ last.err = ""
  /\ last.arg # last.recv /\ last.arg2 # last.recv
  /\ last.ret > MaxObjs /\ last.arg2Was.mag > 1 /\ BN_int(Value(last.ret)) = 1

\* The tests of suite.ran before position i.
TestsBefore(i) == Cardinality({j \in 1..(i - 1) : suite.ran[j].k = "test"})

\* C22: in the test file that calls setImplementation in the body of
\* bigIntegerTests, every test body executes while the backend of its
\* describe block is the active one, and the original backend is set again
\* only after all the test bodies have executed.
TestsRunUnderTheirBackend ==
  suite.layout = "part_001"
    => \A i \in 1..Len(suite.ran) :
         /\ suite.ran[i].k = "test" => suite.ran[i].active = suite.ran[i].group
         /\ suite.ran[i].k = "restore" => TestsBefore(i) = 2 * suite.tests

\* The same property of the test file that calls setImplementation in the
\* first test of bigIntegerTests.
QueuedTestsRunUnderTheirBackend ==
  suite.layout = "part_000"
    => \A i \in 1..Len(suite.ran) :
         /\ suite.ran[i].k = "test" => suite.ran[i].active = suite.ran[i].group
         /\ suite.ran[i].k = "restore" => TestsBefore(i) = 2 * suite.tests

\* Every body of the file has executed.
SuiteDone == suite.layout # "none" /\ loaded /\ suite.todo = <<>> /\ suite.queue = <<>>

\* The integer a byte array of the given endianness encodes.
Decoded(bytes, endian) ==
  IF endian = "le" THEN FromBE(Reverse(bytes)) ELSE FromBE(bytes)

\* C23: for a positive v of the fallback backend and a length L with
\* 0 < L < v.byteLength(), v.toUint8Array(endian, L) throws for either
\* endianness, and whenever toUint8Array returns an array it encodes v.
NeverTruncated ==
  (call.op = "toUint8Array" /\ call.a > 0)
    => /\ (call.c > 0 /\ call.c < byteLength(Wide)) => call.res.err = ArrayTooShort
       /\ call.res.err = "" => Decoded(call.res.val, call.endian) = BN_int(Wide)

TooShortLittleEndianRefused ==
  /\ call.op = "toUint8Array" /\ call.endian = "le" /\ call.a > 0
  /\ byteLength(Wide) = 3 /\ call.c = 2
  /\ BN_byte(Wide, 2) # 0
  /\ call.res.err = ArrayTooShort

====
